---- MODULE Spec2Model ----
(***************************************************************************)
(* Model of scripts/rename_session_windows.py (tmux-window-name).          *)
(*                                                                         *)
(* Spec         concurrent invocations of rename_windows against one tmux  *)
(*              server, with the user renaming windows by hand; one step   *)
(*              per tmux command.                                          *)
(* SpecResolve  get_current_program applied to a process snapshot.         *)
(* SpecLabel    rename_window's label: icon decoration and truncation.     *)
(*                                                                         *)
(* Python strings are sequences of one-character strings; a nerd-font      *)
(* glyph is one character, written "U+xxxx".                               *)
(***************************************************************************)
EXTENDS Integers, Sequences, FiniteSets, TLC

\* ------------------------------------------------------------------ bounds
NumInvocations == 2
NumWindows == 1
MaxSnapshot == 2
MaxNameLen == 6

Procs == 1..NumInvocations
Windows == 1..NumWindows

VARIABLES
    running,            \* server option @tmux_window_name_running ("0"/"1" as 0/1)
    hook,               \* after-rename-window[HOOK_INDEX] is installed
    enabled,            \* window option @tmux_window_name_enabled, per window
    pane_program,       \* what get_panes_programs resolves for each window's active pane
    pc,                 \* position of each invocation
    already_running,    \* tmux_guard's local of each invocation
    panes_with_programs,\* rename_windows' local list (the part still to process)
    panes_with_dir,     \* rename_windows' local list
    exclusive_paths,    \* rename_windows' local list (the part still to process)
    enabled_in_window,  \* last value of 'enabled' each invocation read, per window
    renamed,            \* rename-window commands each invocation issued, per window
    options,            \* Options
    running_programs,   \* get_panes_programs: the lines of `ps -a -oppid,command`
    pane_pid,           \* pane.pane_pid
    program,            \* what get_current_program returned or raised
    name_in,            \* rename_window's window_name argument
    composed,           \* window_name after apply_icon_if_in_style
    written,            \* the name given to rename-window
    step                \* which call has been made (SpecResolve, SpecLabel)

guardVars == <<running, hook, enabled, pane_program, pc, already_running,
               panes_with_programs, panes_with_dir, exclusive_paths,
               enabled_in_window, renamed>>

pureVars == <<options, running_programs, pane_pid, program, name_in, composed,
              written, step>>

vars == <<guardVars, pureVars>>

\* ========================================================= Python values
\* An Optional[str] result, or the exception a call raised.
None == [tag |-> "None", s |-> <<>>]

Str(x) == [tag |-> "str", s |-> x]

Raise(e) == [tag |-> e, s |-> <<>>]

Range(s) == {s[k] : k \in DOMAIN s}

\* x in list
InList(x, list) == \E k \in DOMAIN list : list[k] = x

\* The characters str.split() and bytes.split() treat as separators.
Whitespace == {" ", "\t", "\n", "\r"}

IsSpace(c) == c \in Whitespace

\* The place of the first character of `s` that is in `seps`, else Len(s) + 1.
FirstOf(s, seps) ==
    IF \E k \in DOMAIN s : s[k] \in seps
    THEN CHOOSE k \in DOMAIN s : s[k] \in seps /\ \A j \in 1..(k - 1) : s[j] \notin seps
    ELSE Len(s) + 1

\* s.split(): the maximal runs of non-whitespace characters.
RECURSIVE split(_)
split(s) ==
    IF s = <<>> THEN <<>>
    ELSE IF IsSpace(Head(s)) THEN split(Tail(s))
    ELSE LET n == FirstOf(s, Whitespace)
         IN <<SubSeq(s, 1, n - 1)>> \o split(SubSeq(s, n, Len(s)))

\* s.split(c): the pieces between the occurrences of c, empty pieces kept.
RECURSIVE split_on(_, _)
split_on(s, c) ==
    LET n == FirstOf(s, {c})
    IN IF n > Len(s) THEN <<s>>
       ELSE <<SubSeq(s, 1, n - 1)>> \o split_on(SubSeq(s, n + 1, Len(s)), c)

\* sep.join(tokens)
RECURSIVE join(_, _)
join(tokens, sep) ==
    IF tokens = <<>> THEN <<>>
    ELSE IF Len(tokens) = 1 THEN tokens[1]
    ELSE tokens[1] \o sep \o join(Tail(tokens), sep)

\* s.startswith(p)
StartsWith(s, p) == Len(s) >= Len(p) /\ SubSeq(s, 1, Len(p)) = p

\* sub in s
Contains(s, sub) ==
    \E k \in 1..(Len(s) - Len(sub) + 1) : SubSeq(s, k, k + Len(sub) - 1) = sub

\* s[:n], Python's slice: a negative n counts from the end.
Slice(s, n) ==
    IF n >= 0 THEN SubSeq(s, 1, IF n < Len(s) THEN n ELSE Len(s))
    ELSE SubSeq(s, 1, IF Len(s) + n > 0 THEN Len(s) + n ELSE 0)

DigitValue(c) ==
    CASE c = "0" -> 0 [] c = "1" -> 1 [] c = "2" -> 2 [] c = "3" -> 3 [] c = "4" -> 4
      [] c = "5" -> 5 [] c = "6" -> 6 [] c = "7" -> 7 [] c = "8" -> 8 [] c = "9" -> 9

\* int(s) for a string of decimal digits
RECURSIVE int(_)
int(s) ==
    IF s = <<>> THEN 0
    ELSE 10 * int(SubSeq(s, 1, Len(s) - 1)) + DigitValue(s[Len(s)])

\* Path(s).name: the last component of a POSIX path; empty and "." components
\* do not count, and a path without components has the name ''.
PathName(s) ==
    LET parts == SelectSeq(split_on(s, "/"), LAMBDA p : p # <<>> /\ p # <<".">>)
    IN IF parts = <<>> THEN <<>> ELSE parts[Len(parts)]

\* re.sub('^' + prefix + '(.+)', r'\g<1>', name) for a literal prefix, on a
\* name without line breaks: the prefix goes when something follows it.
StripLiteralPrefix(name, prefix) ==
    IF StartsWith(name, prefix) /\ Len(name) > Len(prefix)
    THEN SubSeq(name, Len(prefix) + 1, Len(name))
    ELSE name

\* re.sub(USR_BIN_REMOVER[0], USR_BIN_REMOVER[1], name): ^(/usr)?/bin/(.+)
USR_BIN_REMOVER(name) ==
    IF StartsWith(name, <<"/", "u", "s", "r", "/", "b", "i", "n", "/">>) THEN StripLiteralPrefix(name, <<"/", "u", "s", "r", "/", "b", "i", "n", "/">>)
    ELSE StripLiteralPrefix(name, <<"/", "b", "i", "n", "/">>)

\* re.sub(CUR_SYSTEM_REMOVER[0], CUR_SYSTEM_REMOVER[1], name)
CUR_SYSTEM_REMOVER(name) == StripLiteralPrefix(name, <<"/", "r", "u", "n", "/", "c", "u", "r", "r", "e", "n", "t", "-", "s", "y", "s", "t", "e", "m", "/", "s", "w", "/", "b", "i", "n", "/">>)

IsLetter(c) ==
    c \in {"a", "b", "c", "d", "e", "f", "g", "h", "i", "j", "k", "l", "m", "n", "o",
           "p", "q", "r", "s", "t", "u", "v", "w", "x", "y", "z",
           "A", "B", "C", "D", "E", "F", "G", "H", "I", "J", "K", "L", "M", "N", "O",
           "P", "Q", "R", "S", "T", "U", "V", "W", "X", "Y", "Z"}

\* `name` without head + <one path component> + "/" + <any character> + tail,
\* when the component is as the pattern wants (letters only and possibly empty,
\* or anything but empty) and something follows: the two Nix patterns,
\* whose '.' before nix-profile matches any character.
StripProfilePrefix(name, head, tail, letters_only) ==
    IF ~StartsWith(name, head) THEN name
    ELSE LET rest == SubSeq(name, Len(head) + 1, Len(name))
             n == FirstOf(rest, {"/"})
             user == SubSeq(rest, 1, n - 1)
             after == SubSeq(rest, n + 2, Len(rest))
         IN IF /\ n + 1 <= Len(rest)
               /\ (IF letters_only THEN \A k \in DOMAIN user : IsLetter(user[k])
                   ELSE user # <<>>)
               /\ StartsWith(after, tail)
               /\ Len(after) > Len(tail)
            THEN SubSeq(after, Len(tail) + 1, Len(after))
            ELSE name

\* re.sub(PROFILE_REMOVER[0], ...): ^/home/[a-zA-Z]*/.nix-profile/bin/(.+)
PROFILE_REMOVER(name) ==
    StripProfilePrefix(name, <<"/", "h", "o", "m", "e", "/">>, <<"n", "i", "x", "-", "p", "r", "o", "f", "i", "l", "e", "/", "b", "i", "n", "/">>, TRUE)

\* re.sub(NIX_STORE_REMOVER[0], ...): ^/nix/store/[^/]+/.nix-profile/bin/(.+)
NIX_STORE_REMOVER(name) ==
    StripProfilePrefix(name, <<"/", "n", "i", "x", "/", "s", "t", "o", "r", "e", "/">>, <<"n", "i", "x", "-", "p", "r", "o", "f", "i", "l", "e", "/", "b", "i", "n", "/">>, FALSE)

\* ==================================================== initial conditions
\* Options.shells, the default
DefaultShells == <<<<"b", "a", "s", "h">>, <<"f", "i", "s", "h">>, <<"s", "h">>, <<"z", "s", "h">>>>

\* Nothing is resolved or labelled in detail in Spec: the panes' programs are
\* given by kind (pane_program) and the labels by whether they are empty.
PureIdle ==
    /\ options = [shells |-> DefaultShells, ignored_programs |-> <<>>,
                  show_program_args |-> TRUE, icon_style |-> "name",
                  custom_icons |-> <<>>, max_name_len |-> 20]
    /\ running_programs = <<>>
    /\ pane_pid = None
    /\ program = None
    /\ name_in = <<>>
    /\ composed = <<>>
    /\ written = <<>>
    /\ step = "start"

\* The guard's state before any invocation: the plugin has installed the hook.
InitGuard ==
    /\ running = 0
    /\ hook = TRUE
    /\ enabled = [w \in Windows |-> TRUE]
    /\ pc = [i \in Procs |-> "idle"]
    /\ already_running = [i \in Procs |-> FALSE]
    /\ panes_with_programs = [i \in Procs |-> <<>>]
    /\ panes_with_dir = [i \in Procs |-> <<>>]
    /\ exclusive_paths = [i \in Procs |-> <<>>]
    /\ enabled_in_window = [i \in Procs |-> [w \in Windows |-> "unread"]]
    /\ renamed = [i \in Procs |-> [w \in Windows |-> 0]]

\* No invocation of rename_windows is modelled in SpecResolve and SpecLabel.
GuardIdle ==
    /\ InitGuard
    /\ pane_program = [w \in Windows |-> "None"]

\* =================================================== get_current_program
\* The token that marks the script's own process.
SCRIPT == <<"s", "c", "r", "i", "p", "t", "s", "/", "r", "e", "n", "a", "m", "e", "_", "s", "e", "s", "s", "i", "o", "n", "_", "w", "i", "n", "d", "o", "w", "s", ".", "p", "y">>

\* Mutant: the second token keeps its directories.
parse_shell_command_no_basename(shell_cmd) ==
    IF Len(shell_cmd) = 1 THEN None ELSE Str(join(Tail(shell_cmd), <<" ">>))

\* parse_shell_command(shell_cmd)
parse_shell_command(shell_cmd) ==
    IF Len(shell_cmd) = 1 THEN None
    ELSE Str(join(<<PathName(shell_cmd[2])>> \o SubSeq(shell_cmd, 3, Len(shell_cmd)), <<" ">>))

\* Mutant: the ignore list is tested with the unstripped name.
IsIgnoredUnstripped(program_name_stripped, program_name, opts) ==
    InList(program_name, opts.ignored_programs)

\* "program_name_stripped in options.ignored_programs"
IsIgnored(program_name_stripped, program_name, opts) ==
    InList(program_name_stripped, opts.ignored_programs)

\* Mutant: running out of records raises.
NoProgramFoundRaises == Raise("LookupError")

\* The "return None" after the loop: no record was returned.
NoProgramFound == None

\* The loop of get_current_program from record k on.
RECURSIVE ScanPrograms(_, _, _, _)
ScanPrograms(programs, k, pid, opts) ==
    IF k > Len(programs) THEN NoProgramFound
    ELSE LET line == split(programs[k])
             prog == Tail(line)
             program_name == prog[1]
             program_name_stripped == USR_BIN_REMOVER(program_name)
         IN IF int(line[1]) # int(pid) THEN ScanPrograms(programs, k + 1, pid, opts)
            ELSE IF Len(prog) > 1 /\ Contains(prog[2], SCRIPT)
                 THEN ScanPrograms(programs, k + 1, pid, opts)
            ELSE IF IsIgnored(program_name_stripped, program_name, opts)
                 THEN ScanPrograms(programs, k + 1, pid, opts)
            ELSE IF InList(program_name_stripped, opts.shells)
                 THEN parse_shell_command(prog)
            ELSE IF ~opts.show_program_args THEN Str(prog[1])
            ELSE Str(join(prog, <<" ">>))

\* get_current_program(running_programs, pane, options); pid is pane.pane_pid
get_current_program(programs, pid, opts) ==
    IF pid = None THEN Raise("ValueError")
    ELSE ScanPrograms(programs, 1, pid.s, opts)

\* Lines `ps -a -oppid,command` prints (the ppid column is right-aligned).
PsLines == {
    <<" ", " ", " ", " ", "7", " ", "b", "a", "s", "h">>,
    <<" ", " ", " ", " ", "7", " ", "/", "b", "i", "n", "/", "b", "a", "s", "h", " ", " ", "x", "/", "r", "u", "n", ".", "s", "h", " ", "-", "v">>,
    <<" ", " ", " ", " ", "7", " ", "/", "r", "u", "n", "/", "c", "u", "r", "r", "e", "n", "t", "-", "s", "y", "s", "t", "e", "m", "/", "s", "w", "/", "b", "i", "n", "/", "b", "a", "s", "h", " ", "r", "u", "n", ".", "s", "h">>,
    <<" ", " ", " ", " ", "7", " ", "/", "u", "s", "r", "/", "b", "i", "n", "/", "z", "s", "h", " ", "/", "u", "s", "r", "/", "b", "i", "n", "/", "s", "h">>,
    <<" ", " ", " ", " ", "7", " ", "b", "a", "s", "h", " ", "b", "a", "s", "h">>,
    <<" ", " ", " ", " ", "7", " ", "t", "o", "p">>,
    <<" ", " ", " ", " ", "7", " ", "/", "u", "s", "r", "/", "b", "i", "n", "/", "t", "o", "p", " ", "-", "d", " ", "1">>,
    <<" ", " ", " ", " ", "7", " ", "v", "i", "m", " ", "a", ".", "p", "y">>,
    <<" ", " ", " ", "1", "8", " ", "v", "i", "m">>,
    <<" ", " ", " ", " ", "7", " ", "p", "y", "t", "h", "o", "n", "3", " ", "/", "p", "/", "s", "c", "r", "i", "p", "t", "s", "/", "r", "e", "n", "a", "m", "e", "_", "s", "e", "s", "s", "i", "o", "n", "_", "w", "i", "n", "d", "o", "w", "s", ".", "p", "y">> }

\* pane.pane_pid as libtmux gives it: a string of digits, or None
PanePids == {None, Str(<<"7">>), Str(<<"1", "8">>), Str(<<"9">>)}

RECURSIVE SeqsUpTo(_, _)
SeqsUpTo(S, n) ==
    IF n = 0 THEN {<<>>}
    ELSE LET shorter == SeqsUpTo(S, n - 1)
         IN shorter \cup {Append(q, x) : q \in {r \in shorter : Len(r) = n - 1}, x \in S}

\* The options get_current_program reads; the others at their defaults.
ResolveOptions ==
    [shells : {DefaultShells, <<<<"s", "h">>>>},
     ignored_programs : {<<>>, <<<<"t", "o", "p">>>>, <<<<"t", "o", "p">>, <<"b", "a", "s", "h">>>>},
     show_program_args : BOOLEAN,
     icon_style : {"name"},
     custom_icons : {<<>>},
     max_name_len : {20}]

InitResolve ==
    /\ options \in ResolveOptions
    /\ running_programs \in SeqsUpTo(PsLines, MaxSnapshot)
    /\ pane_pid \in PanePids
    /\ program = None
    /\ name_in = <<>>
    /\ composed = <<>>
    /\ written = <<>>
    /\ step = "start"
    /\ GuardIdle

\* get_panes_programs calls get_current_program for the pane.
ResolveProgram ==
    /\ step = "start"
    /\ program' = get_current_program(running_programs, pane_pid, options)
    /\ step' = "resolved"
    /\ UNCHANGED <<options, running_programs, pane_pid, name_in, composed, written>>
    /\ UNCHANGED guardVars

\* ========================================================= rename_window
DEFAULT_PROGRAM_ICONS ==
    (<<"n", "v", "i", "m">> :> <<"U+e62b">>) @@ (<<"v", "i", "m">> :> <<"U+e62b">>) @@ (<<"v", "i">> :> <<"U+e62b">>) @@
    (<<"g", "i", "t">> :> <<"U+e702">>) @@ (<<"p", "y", "t", "h", "o", "n">> :> <<"U+e606">>) @@ (<<"n", "o", "d", "e">> :> <<"U+e718">>) @@
    (<<"n", "p", "m">> :> <<"U+e718">>) @@ (<<"y", "a", "r", "n">> :> <<"U+e718">>) @@ (<<"d", "o", "c", "k", "e", "r">> :> <<"U+e7b0">>) @@
    (<<"k", "u", "b", "e", "c", "t", "l">> :> <<"U+e7b7">>) @@ (<<"g", "o">> :> <<"U+e627">>) @@ (<<"r", "u", "s", "t">> :> <<"U+e7a8">>) @@
    (<<"c", "a", "r", "g", "o">> :> <<"U+e7a8">>) @@ (<<"p", "h", "p">> :> <<"U+e608">>) @@ (<<"r", "u", "b", "y">> :> <<"U+e739">>) @@
    (<<"j", "a", "v", "a">> :> <<"U+e738">>) @@ (<<"m", "v", "n">> :> <<"U+e738">>) @@ (<<"g", "r", "a", "d", "l", "e">> :> <<"U+e738">>) @@
    (<<"b", "a", "s", "h">> :> <<"U+e7a2">>) @@ (<<"z", "s", "h">> :> <<"U+e7a2">>) @@ (<<"f", "i", "s", "h">> :> <<"U+e7a2">>) @@
    (<<"s", "h">> :> <<"U+e7a2">>)

\* d.get(k, default)
DictGet(d, k, default) == IF k \in DOMAIN d THEN d[k] ELSE default

\* icon.encode('utf-8').decode('unicode-escape'), for an ASCII icon whose
\* escapes are \uXXXX: each becomes the one character it names.
RECURSIVE decode_unicode_escape(_)
decode_unicode_escape(s) ==
    IF s = <<>> THEN <<>>
    ELSE IF Len(s) >= 6 /\ s[1] = "\\" /\ s[2] = "u"
         THEN <<"U+" \o s[3] \o s[4] \o s[5] \o s[6]>>
              \o decode_unicode_escape(SubSeq(s, 7, Len(s)))
    ELSE <<Head(s)>> \o decode_unicode_escape(Tail(s))

\* base_name of get_program_icon: the first word, without its directories and
\* without what follows a colon.
base_name(program_name) ==
    LET parts == split_on(split(program_name)[1], "/")
        last == parts[Len(parts)]
    IN IF ":" \in Range(last) THEN split_on(last, ":")[1] ELSE last

\* get_program_icon(program_name, options)
get_program_icon(program_name, opts) ==
    LET custom == DictGet(opts.custom_icons, base_name(program_name), <<>>)
        icon == IF custom # <<>> THEN custom
                ELSE DictGet(DEFAULT_PROGRAM_ICONS, base_name(program_name), <<>>)
    IN IF StartsWith(icon, <<"\\", "u">>) THEN decode_unicode_escape(icon) ELSE icon

\* Mutant: the icon is composed without the "if icon:" test.
apply_icon_unchecked(name, opts) ==
    IF opts.icon_style = "icon" THEN get_program_icon(name, opts)
    ELSE IF opts.icon_style = "name_and_icon"
         THEN get_program_icon(name, opts) \o <<" ">> \o name
    ELSE name

\* apply_icon_if_in_style(name, options)
apply_icon_if_in_style(name, opts) ==
    IF opts.icon_style \in {"icon", "name_and_icon"}
    THEN LET icon == get_program_icon(name, opts)
         IN IF icon # <<>>
            THEN (IF opts.icon_style = "icon" THEN icon ELSE icon \o <<" ">> \o name)
            ELSE name
    ELSE name

\* Mutant: the cut keeps one character too many.
truncate_one_more(window_name, max_name_len) == Slice(window_name, max_name_len + 1)

\* window_name = window_name[:max_name_len]
truncate(window_name, max_name_len) == Slice(window_name, max_name_len)

\* Names rename_windows passes: a substituted program string, 'program:path', a path.
LabelNames == {
    <<"x">>, <<"s", "h">>, <<"t", "o", "p">>, <<"a", "/", "x">>, <<"v", "i", "m", " ", "a", ".", "p", "y">>, <<"h", "t", "o", "p", " ", "-", "d", " ", "1">>,
    <<"/", "u", "s", "r", "/", "b", "i", "n", "/", "f", "o", "o">>, <<"n", "v", "i", "m", ":", "p", "r", "o", "j">>, <<"m", "a", "k", "e", ":", "p", "r", "o", "j">>, <<"g", "i", "t", ":", "r", "/", "a", "p", "i">> }

\* Options.custom_icons: none, a glyph, an escaped glyph, an empty icon.
CustomIconTables == {
    <<>>,
    <<"t", "o", "p">> :> <<"U+f4bc">>,
    <<"x">> :> <<"\\", "u", "f", "4", "8", "9">>,
    <<"m", "a", "k", "e">> :> <<>> }

\* The options rename_window reads; the others at their defaults.
LabelOptions ==
    [shells : {DefaultShells},
     ignored_programs : {<<>>},
     show_program_args : {TRUE},
     icon_style : {"name", "icon", "name_and_icon"},
     custom_icons : CustomIconTables,
     max_name_len : 0..MaxNameLen]

InitLabel ==
    /\ options \in LabelOptions
    /\ name_in \in LabelNames
    /\ running_programs = <<>>
    /\ pane_pid = None
    /\ program = None
    /\ composed = <<>>
    /\ written = <<>>
    /\ step = "start"
    /\ GuardIdle

\* rename_window(server, window_id, window_name, max_name_len, options): the
\* name it hands to rename-window (and to automatic-rename-format).
RenameWindowLabel ==
    /\ step = "start"
    /\ composed' = apply_icon_if_in_style(name_in, options)
    /\ written' = truncate(composed', options.max_name_len)
    /\ step' = "renamed"
    /\ UNCHANGED <<options, running_programs, pane_pid, program, name_in>>
    /\ UNCHANGED guardVars

\* ================================================================ Spec
\* Kinds of a resolved pane: program None, a program of dir_programs, any other program.
ProgramKinds == {"None", "dir_program", "program"}

\* ------------------------------------------------------------ tmux server
\* get_option(server, 'running', 0): unset or '0' evaluates falsy, '1' truthy.
get_option_running == running = 1

\* The hook body: if-shell "[ #{n:window_name} -gt 0 ]" "set -w enabled 0"
\* "set -w enabled 1; run-shell <script>".
HookBody(w, nonempty) == [enabled EXCEPT ![w] = ~nonempty]

\* tmux runs after-rename-window after every rename-window while it is installed.
AfterRenameWindow(w, nonempty) == IF hook THEN HookBody(w, nonempty) ELSE enabled

\* get_window_option(server, window_id, 'enabled', 1)
get_window_option_enabled(w) == enabled[w]

\* ------------------------------------------------------------- tmux_guard
\* Mutant: finally releases whatever already_running was.
GuardReleasesAlways(i) == TRUE

\* finally: "if not already_running"
GuardReleases(i) == ~already_running[i]

\* The locals of rename_windows go out of scope when the with block is left.
ClearLocals(i) ==
    /\ panes_with_programs' = [panes_with_programs EXCEPT ![i] = <<>>]
    /\ panes_with_dir' = [panes_with_dir EXCEPT ![i] = <<>>]
    /\ exclusive_paths' = [exclusive_paths EXCEPT ![i] = <<>>]
    /\ enabled_in_window' = [enabled_in_window EXCEPT ![i] = [w \in Windows |-> "unread"]]
    /\ renamed' = [renamed EXCEPT ![i] = [w \in Windows |-> 0]]

\* already_running = bool(get_option(server, 'running', 0)); when it is set the
\* with block returns at once ("if already_running: return") and finally is next.
\* Invocations are identical processes: they are numbered in starting order.
GuardRead(i) ==
    /\ pc[i] = "idle"
    /\ (IF i = 1 THEN TRUE ELSE pc[i - 1] # "idle")
    /\ already_running' = [already_running EXCEPT ![i] = get_option_running]
    /\ pc' = [pc EXCEPT ![i] = IF get_option_running THEN "finally" ELSE "set_running"]
    /\ UNCHANGED pureVars
    /\ UNCHANGED <<running, hook, enabled, pane_program, panes_with_programs,
                   panes_with_dir, exclusive_paths, enabled_in_window, renamed>>

\* set_option(server, 'running', '1')
SetRunning(i) ==
    /\ pc[i] = "set_running"
    /\ running' = 1
    /\ pc' = [pc EXCEPT ![i] = "disable_hook"]
    /\ UNCHANGED pureVars
    /\ UNCHANGED <<hook, enabled, pane_program, already_running, panes_with_programs,
                   panes_with_dir, exclusive_paths, enabled_in_window, renamed>>

\* finally, when the guard does not release: nothing is written; the process ends.
FinallySkip(i) ==
    /\ pc[i] = "finally"
    /\ ~GuardReleases(i)
    /\ pc' = [pc EXCEPT ![i] = "done"]
    /\ already_running' = [already_running EXCEPT ![i] = FALSE]
    /\ UNCHANGED pureVars
    /\ UNCHANGED <<running, hook, enabled, pane_program, panes_with_programs,
                   panes_with_dir, exclusive_paths, enabled_in_window, renamed>>

\* finally: enable_user_rename_hook(server)
EnableHook(i) ==
    /\ pc[i] = "finally"
    /\ GuardReleases(i)
    /\ hook' = TRUE
    /\ pc' = [pc EXCEPT ![i] = "reset_running"]
    /\ UNCHANGED pureVars
    /\ UNCHANGED <<running, enabled, pane_program, already_running, panes_with_programs,
                   panes_with_dir, exclusive_paths, enabled_in_window, renamed>>

\* finally: set_option(server, 'running', '0'); the process ends.
ResetRunning(i) ==
    /\ pc[i] = "reset_running"
    /\ running' = 0
    /\ pc' = [pc EXCEPT ![i] = "done"]
    /\ UNCHANGED pureVars
    /\ UNCHANGED <<hook, enabled, pane_program, already_running, panes_with_programs,
                   panes_with_dir, exclusive_paths, enabled_in_window, renamed>>

\* --------------------------------------------------------- rename_windows
\* The windows of `ws`, in window order, as a list.
RECURSIVE ListOf(_, _)
ListOf(ws, from) ==
    IF from > NumWindows THEN <<>>
    ELSE (IF from \in ws THEN <<from>> ELSE <<>>) \o ListOf(ws, from + 1)

\* get_exclusive_paths(panes_with_dir): one (pane, display_path) pair per pane.
get_exclusive_paths(panes) == panes

\* Where control is once the first loop holds `pwp` and panes_with_dir is `pwd`:
\* the loop's next pane, or exclusive_paths = get_exclusive_paths(panes_with_dir)
\* and the second loop, or the end of the with block.
AfterLoop1Item(i, pwp, pwd) ==
    /\ panes_with_programs' = [panes_with_programs EXCEPT ![i] = pwp]
    /\ panes_with_dir' = [panes_with_dir EXCEPT ![i] = pwd]
    /\ exclusive_paths' = [exclusive_paths EXCEPT
            ![i] = IF pwp = <<>> THEN get_exclusive_paths(pwd) ELSE <<>>]
    /\ pc' = [pc EXCEPT ![i] = IF pwp # <<>> THEN "loop1"
                               ELSE IF get_exclusive_paths(pwd) # <<>> THEN "loop2"
                               ELSE "end_with"]

\* The same for the second loop holding `ep`.
AfterLoop2Item(i, ep) ==
    /\ exclusive_paths' = [exclusive_paths EXCEPT ![i] = ep]
    /\ pc' = [pc EXCEPT ![i] = IF ep # <<>> THEN "loop2" ELSE "end_with"]

\* disable_user_rename_hook(server); yield already_running; then, in the with
\* block: get_current_session, get_panes_programs, fix_pane_path, the two partitions.
DisableHook(i) ==
    /\ pc[i] = "disable_hook"
    /\ hook' = FALSE
    /\ AfterLoop1Item(i, ListOf({w \in Windows : pane_program[w] # "None"}, 1),
                         ListOf({w \in Windows : pane_program[w] = "None"}, 1))
    /\ UNCHANGED pureVars
    /\ UNCHANGED <<running, enabled, pane_program, already_running,
                   enabled_in_window, renamed>>

\* Mutant: the first loop falls through to its rename after the append.
DirProgramFallsThrough == FALSE

\* Whether the first loop leaves an enabled pane running a dir program to the
\* second loop (panes_with_dir.append(pane); continue) instead of renaming it.
DirProgramDeferred == TRUE

\* for pane in panes_with_programs: enabled_in_window = get_window_option(...);
\* not enabled: continue; a dir program: panes_with_dir.append(pane); continue.
Loop1Check(i) ==
    /\ pc[i] = "loop1"
    /\ LET w == Head(panes_with_programs[i])
           on == get_window_option_enabled(w)
           isdir == pane_program[w] = "dir_program"
           pwd == IF on /\ isdir THEN Append(panes_with_dir[i], w) ELSE panes_with_dir[i]
       IN /\ enabled_in_window' = [enabled_in_window EXCEPT ![i][w] = IF on THEN "on" ELSE "off"]
          /\ IF on /\ ~(isdir /\ DirProgramDeferred)
             THEN /\ pc' = [pc EXCEPT ![i] = "loop1_rename"]
                  /\ panes_with_dir' = [panes_with_dir EXCEPT ![i] = pwd]
                  /\ UNCHANGED <<panes_with_programs, exclusive_paths>>
             ELSE AfterLoop1Item(i, Tail(panes_with_programs[i]), pwd)
    /\ UNCHANGED pureVars
    /\ UNCHANGED <<running, hook, enabled, pane_program, already_running, renamed>>

\* rename_window(server, window_id, name, ...): rename-window, then the hook if
\* installed; the label may be empty (max_name_len 0).
rename_window(i, w, nonempty) ==
    /\ renamed' = [renamed EXCEPT ![i][w] = @ + 1]
    /\ enabled' = AfterRenameWindow(w, nonempty)

Loop1Rename(i) ==
    /\ pc[i] = "loop1_rename"
    /\ \E nonempty \in BOOLEAN : rename_window(i, Head(panes_with_programs[i]), nonempty)
    /\ AfterLoop1Item(i, Tail(panes_with_programs[i]), panes_with_dir[i])
    /\ UNCHANGED pureVars
    /\ UNCHANGED <<running, hook, pane_program, already_running, enabled_in_window>>

\* for p, display_path in exclusive_paths: enabled_in_window = ...; not enabled: continue
Loop2Check(i) ==
    /\ pc[i] = "loop2"
    /\ LET w == Head(exclusive_paths[i])
           on == get_window_option_enabled(w)
       IN /\ enabled_in_window' = [enabled_in_window EXCEPT ![i][w] = IF on THEN "on" ELSE "off"]
          /\ IF on
             THEN /\ pc' = [pc EXCEPT ![i] = "loop2_rename"]
                  /\ UNCHANGED exclusive_paths
             ELSE AfterLoop2Item(i, Tail(exclusive_paths[i]))
    /\ UNCHANGED pureVars
    /\ UNCHANGED <<running, hook, enabled, pane_program, already_running,
                   panes_with_programs, panes_with_dir, renamed>>

Loop2Rename(i) ==
    /\ pc[i] = "loop2_rename"
    /\ \E nonempty \in BOOLEAN : rename_window(i, Head(exclusive_paths[i]), nonempty)
    /\ AfterLoop2Item(i, Tail(exclusive_paths[i]))
    /\ UNCHANGED pureVars
    /\ UNCHANGED <<running, hook, pane_program, already_running, panes_with_programs,
                   panes_with_dir, enabled_in_window>>

\* The with block ends normally: control goes to finally.
EndWith(i) ==
    /\ pc[i] = "end_with"
    /\ pc' = [pc EXCEPT ![i] = "finally"]
    /\ ClearLocals(i)
    /\ UNCHANGED pureVars
    /\ UNCHANGED <<running, hook, enabled, pane_program, already_running>>

\* An error raised inside the with block (session lookup, process resolution,
\* substitution, a failing rename): control goes to finally. At "disable_hook" it
\* is raised by the code that follows the hook's removal in the same step.
InWith(i) == pc[i] \in {"disable_hook", "loop1", "loop1_rename", "loop2", "loop2_rename"}

RaiseError(i) ==
    /\ InWith(i)
    /\ hook' = (IF pc[i] = "disable_hook" THEN FALSE ELSE hook)
    /\ pc' = [pc EXCEPT ![i] = "finally"]
    /\ ClearLocals(i)
    /\ UNCHANGED pureVars
    /\ UNCHANGED <<running, enabled, pane_program, already_running>>

\* The process is terminated from outside (SIGKILL): no finally runs.
Kill(i) ==
    /\ pc[i] \notin {"idle", "done", "killed"}
    /\ pc' = [pc EXCEPT ![i] = "killed"]
    /\ already_running' = [already_running EXCEPT ![i] = FALSE]
    /\ ClearLocals(i)
    /\ UNCHANGED pureVars
    /\ UNCHANGED <<running, hook, enabled, pane_program>>

\* The user renames a window by hand: tmux runs the hook if it is installed.
UserRename(w) ==
    /\ \E nonempty \in BOOLEAN : enabled' = AfterRenameWindow(w, nonempty)
    /\ UNCHANGED pureVars
    /\ UNCHANGED <<running, hook, pane_program, pc, already_running,
                   panes_with_programs, panes_with_dir, exclusive_paths,
                   enabled_in_window, renamed>>

Init ==
    /\ InitGuard
    /\ pane_program \in [Windows -> ProgramKinds]
    /\ PureIdle

Next ==
    \/ \E i \in Procs : GuardRead(i)
    \/ \E i \in Procs : SetRunning(i)
    \/ \E i \in Procs : DisableHook(i)
    \/ \E i \in Procs : Loop1Check(i)
    \/ \E i \in Procs : Loop1Rename(i)
    \/ \E i \in Procs : Loop2Check(i)
    \/ \E i \in Procs : Loop2Rename(i)
    \/ \E i \in Procs : EndWith(i)
    \/ \E i \in Procs : RaiseError(i)
    \/ \E i \in Procs : FinallySkip(i)
    \/ \E i \in Procs : EnableHook(i)
    \/ \E i \in Procs : ResetRunning(i)
    \/ \E i \in Procs : Kill(i)
    \/ \E w \in Windows : UserRename(w)

Spec == Init /\ [][Next]_vars
\* ============================================== SpecResolve and SpecLabel
NextResolve == ResolveProgram

SpecResolve == InitResolve /\ [][NextResolve]_vars

NextLabel == RenameWindowLabel

SpecLabel == InitLabel /\ [][NextLabel]_vars


\* ------------------------------------------------------ claims about Spec
\* The positions inside the with block after the already_running check.
LabelingPositions == {"loop1", "loop1_rename", "loop2", "loop2_rename", "end_with"}

\* Invocation i issues a rename-window command in this step.
RenameStep(i) ==
    /\ pc[i] \in {"loop1_rename", "loop2_rename"}
    /\ pc'[i] \in {"loop1", "loop2", "end_with"}

\* Invocation i read running = 0 and has yet to write running = 0.
Holder(i) ==
    \/ pc[i] \in {"set_running", "disable_hook", "reset_running"} \cup LabelingPositions
    \/ pc[i] = "finally" /\ ~already_running[i]

\* running is set and no invocation remains that would reset it.
Stuck == running = 1 /\ \A i \in Procs : ~Holder(i)

\* C1: at no time are two invocations both inside the guarded labeling region.
C1_NoOverlap == Cardinality({i \in Procs : pc[i] \in LabelingPositions}) <= 1

\* C2: when an invocation that acquired the run state ends (normally or after an
\* error in the guarded region), running is 0 and the hook is installed.
C2_ReleasedOnExit ==
    [][\A i \in Procs : (pc[i] = "reset_running" /\ pc'[i] = "done")
                            => (running' = 0 /\ hook')]_vars

\* C8: every window gets at most one rename-window command per invocation; when
\* the with block ends normally every window's 'enabled' option was read, and the
\* window was renamed exactly once if the invocation read it true, never if false.
C8_OneRenamePerWindow ==
    \A i \in Procs : \A w \in Windows :
        /\ renamed[i][w] <= 1
        /\ pc[i] = "end_with" =>
              /\ enabled_in_window[i][w] # "unread"
              /\ renamed[i][w] = (IF enabled_in_window[i][w] = "on" THEN 1 ELSE 0)

\* An invocation ended its with block normally having renamed, once, a window
\* whose pane runs a dir program (the pane that passes through both loops).
C8_Witness ==
    \E i \in Procs : \E w \in Windows :
        /\ pc[i] = "end_with"
        /\ pane_program[w] = "dir_program"
        /\ enabled_in_window[i][w] = "on"
        /\ renamed[i][w] = 1

\* C9: whenever an invocation issues rename-window the hook is not installed, so
\* the rename never turns a window's 'enabled' option from 1 to 0.
C9_NoHookOnEngineRename ==
    [][\A i \in Procs : RenameStep(i)
            => (~hook /\ \A w \in Windows : enabled[w] => enabled'[w])]_vars

\* C10: an invocation that read running = 1 changes neither running, the hook,
\* a window's 'enabled' option nor any window name in any of its steps; and once
\* running is 1 with no invocation left to reset it, that stays so and no
\* invocation is ever inside the labeling region again.
C10_AlreadyRunningIsInert ==
    [][/\ \A i \in Procs :
            (pc'[i] # pc[i] /\ (already_running[i] \/ already_running'[i]))
                => /\ UNCHANGED <<running, hook, enabled, renamed>>
                   /\ pc'[i] \notin LabelingPositions
       /\ Stuck => (Stuck' /\ \A i \in Procs : pc'[i] \notin LabelingPositions)]_vars

\* running is stuck at 1 and an invocation that started afterwards has read it.
C10_Witness ==
    /\ Stuck
    /\ \E i \in Procs : pc[i] = "finally" /\ already_running[i]

\* ---------------------------------------------- claims about SpecResolve
\* The record's parent pid is the pane's process id.
Matches(line) == int(split(line)[1]) = int(pane_pid.s)

\* The record's command as tokens, and its first token.
CommandOf(line) == Tail(split(line))

\* The record is this script's own process.
IsScript(line) == Len(CommandOf(line)) > 1 /\ Contains(CommandOf(line)[2], SCRIPT)

\* The record's program name, without a leading /bin/ or /usr/bin/, is ignored.
IsIgnoredRecord(line) ==
    InList(USR_BIN_REMOVER(CommandOf(line)[1]), options.ignored_programs)

\* The pane has a process id and no record of the snapshot has it as parent.
NoRecordMatches ==
    /\ pane_pid # None
    /\ \A k \in DOMAIN running_programs : ~Matches(running_programs[k])

\* The first record whose parent pid is the pane's process id is ignored.
FirstMatchIgnored ==
    /\ pane_pid # None
    /\ \E k \in DOMAIN running_programs :
          /\ Matches(running_programs[k])
          /\ \A j \in 1..(k - 1) : ~Matches(running_programs[j])
          /\ IsIgnoredRecord(running_programs[k])

\* The records of the pane that are neither the script nor ignored.
Candidates ==
    IF pane_pid = None THEN {}
    ELSE {k \in DOMAIN running_programs :
            /\ Matches(running_programs[k])
            /\ ~IsScript(running_programs[k])
            /\ ~IsIgnoredRecord(running_programs[k])}

FirstCandidate == CHOOSE k \in Candidates : \A j \in Candidates : k <= j

\* The four removers in the order of the default substitute_sets.
StripFamily(name) ==
    NIX_STORE_REMOVER(PROFILE_REMOVER(CUR_SYSTEM_REMOVER(USR_BIN_REMOVER(name))))

\* The shell rule's result for a command: None for the bare shell, else the base
\* name of the second token and the remaining tokens, joined by single spaces.
ShellInvocation(cmd) ==
    IF Len(cmd) = 1 THEN None
    ELSE Str(join(<<PathName(cmd[2])>> \o SubSeq(cmd, 3, Len(cmd)), <<" ">>))

\* C3, as claimed: when no record has the pane's process id as parent,
\* get_current_program signals a failure and does not return None.
C3_NoMatchIsFailure ==
    (step = "resolved" /\ (pane_pid = None \/ NoRecordMatches))
        => program.tag \notin {"None", "str"}

\* C3, amended: when the pane has a process id and no record has it as parent,
\* get_current_program returns None; it raises only for a pane without one.
C3_NoMatchIsNone ==
    step = "resolved" =>
        /\ NoRecordMatches => program = None
        /\ program.tag \notin {"None", "str"} <=> pane_pid = None

\* A non-empty snapshot without a record of the pane resolved to None.
C3_Witness ==
    /\ step = "resolved"
    /\ NoRecordMatches
    /\ running_programs # <<>>
    /\ program = None

C5_ShellFamily ==
    (step = "resolved" /\ Candidates # {}) =>
        LET cmd == CommandOf(running_programs[FirstCandidate])
        IN InList(StripFamily(cmd[1]), options.shells) =>
              /\ program = ShellInvocation(cmd)
              /\ (program.tag = "str" /\ split(program.s) # <<>>)
                    => split(program.s)[1] # StripFamily(cmd[1])

\* C5, amended: when the candidate's first token, stripped of a leading /bin/ or
\* /usr/bin/ only, is a shell, the result is the shell rule's: the shell token
\* is dropped, whatever the second token is.
C5_ShellUsrBin ==
    (step = "resolved" /\ Candidates # {}) =>
        LET cmd == CommandOf(running_programs[FirstCandidate])
        IN InList(USR_BIN_REMOVER(cmd[1]), options.shells) =>
              program = ShellInvocation(cmd)

\* A shell given by its /bin/ path, running a script given by a path.
C5_Witness ==
    /\ step = "resolved"
    /\ Candidates # {}
    /\ LET cmd == CommandOf(running_programs[FirstCandidate])
       IN /\ cmd[1] # USR_BIN_REMOVER(cmd[1])
          /\ InList(USR_BIN_REMOVER(cmd[1]), options.shells)
          /\ Len(cmd) > 2
          /\ cmd[2] # PathName(cmd[2])
          /\ program.tag = "str"

\* ------------------------------------------------ claims about SpecLabel
\* The name's base name has an entry in neither icon table.
Unmapped ==
    /\ base_name(name_in) \notin DOMAIN options.custom_icons
    /\ base_name(name_in) \notin DOMAIN DEFAULT_PROGRAM_ICONS

\* C6: for max_name_len >= 0, the name written is the first max_name_len
\* characters of the composed label when that is longer, else the label itself.
C6_Truncation ==
    step = "renamed" =>
        IF Len(composed) > options.max_name_len
        THEN /\ Len(written) = options.max_name_len
             /\ written = SubSeq(composed, 1, options.max_name_len)
        ELSE written = composed

\* An icon-decorated label longer than max_name_len was cut.
C6_Witness ==
    /\ step = "renamed"
    /\ composed # name_in
    /\ options.max_name_len > 0
    /\ Len(composed) > options.max_name_len
    /\ Len(written) = options.max_name_len

\* C7: a name whose base name is in neither icon table is left as it is under
\* every icon style.
C7_UnmappedUnchanged ==
    (step = "renamed" /\ Unmapped) => composed = name_in

\* An unmapped name went through the name-and-icon style.
C7_Witness ==
    /\ step = "renamed"
    /\ Unmapped
    /\ options.icon_style = "name_and_icon"
    /\ composed = name_in


====
